---- MODULE Spec2Model ----
(***************************************************************************)
(* Job queue service: the job lifecycle (JobFactory), the in-memory store  *)
(* (JobQueue behind InMemoryJobRepository), the executor (JobExecutor),    *)
(* the polling loop (JobProcessor) and the cancel use case                 *)
(* (CancelJobUseCase), as they run on a single-threaded event loop.        *)
(*                                                                         *)
(* Time is the value Date.now() returns.  A synchronous section reads one  *)
(* clock value.  A macrotask (a tick of the polling timer, the firing of   *)
(* an executor timer) only starts when the microtask queue is empty; the   *)
(* continuation of `await repository.findById(..)` in the cancel use case  *)
(* is a microtask, so it runs after the synchronous code that called       *)
(* cancel has finished, and that code may call other operations first.     *)
(***************************************************************************)
EXTENDS Integers, Sequences, FiniteSets, TLC

\* ------------------------------------------------------------------ bounds
MaxJobs == 2
MaxDelay == 1
RandDen == 2
MaxIdleClock == 2
MaxCancels == 1
MaxQueueJobs == 3
MaxQueueClock == 1
MaxFactoryClock == 2

\* ------------------------------------------------------- program constants
MIN_EXECUTION_TIME == 100
MAX_EXECUTION_TIME == 2000
FAILURE_RATE_NUM == 1
FAILURE_RATE_DEN == 10
CANCEL_CODE == 499
Undefined == -1

PENDING == "pending"
RUNNING == "running"
COMPLETED == "completed"
FAILED == "failed"
CANCELLED == "cancelled"

JobStatus == {PENDING, RUNNING, COMPLETED, FAILED, CANCELLED}

Ids == 1..MaxJobs
Types == {"email"}
Delays == (0 - 1)..MaxDelay

\* A payload value: what kind of JavaScript value it is and its own keys.
UndefinedPayload == [kind |-> "undefined", keys |-> {}]
NullPayload == [kind |-> "null", keys |-> {}]
StringPayload == [kind |-> "string", keys |-> {"0"}]
EmptyPayload == [kind |-> "object", keys |-> {}]
OkPayload == [kind |-> "object", keys |-> {"to"}]
EmptyArrayPayload == [kind |-> "array", keys |-> {}]
ArrayPayload == [kind |-> "array", keys |-> {"0"}]
Payloads ==
  {UndefinedPayload, NullPayload, StringPayload, EmptyPayload, OkPayload,
   EmptyArrayPayload, ArrayPayload}

\* The payloads submitted to the running service.
ServicePayloads == {NullPayload, EmptyPayload, OkPayload}

\* A JobConfig value: `delay` may be left out.
NoConfig == [hasDelay |-> FALSE, delay |-> 0]
Config(delay) == [hasDelay |-> TRUE, delay |-> delay]
Configs == {NoConfig} \cup {Config(delay) : delay \in Delays}
DEFAULT_JOB_CONFIG == [delay |-> 0]
Rand == 0..(RandDen - 1)

VARIABLES
  now,                \* Date.now()
  jobs,               \* JobQueue.jobs: the Map, as the sequence of its values in insertion order
  nextId,             \* the next value uuidv4() returns
  inflight,           \* executeJob calls whose timer has not fired yet
  cancelQ,            \* CancelJobUseCase.execute calls suspended at `await findById`
  isRunning,          \* JobProcessor.isRunning
  processingInterval, \* JobProcessor.processingInterval is set (it holds a timer handle)
  timers,             \* the number of setInterval timers created and not cleared
  startCount,         \* per job id: how many times executeJob was invoked for it
  call,               \* the last direct call of a JobFactory function: arguments and outcome
  isInitialized       \* JobWorker.isInitialized

vars ==
  <<now, jobs, nextId, inflight, cancelQ, isRunning, processingInterval, timers, startCount, call,
    isInitialized>>

\* ------------------------------------------------------------- JobResult
NoDetail == [jobType |-> "", at |-> Undefined]
NoResult == [defined |-> FALSE, message |-> "", code |-> Undefined, data |-> NoDetail, details |-> NoDetail]

createSuccessResult(message, data) ==
  [defined |-> TRUE, message |-> message, code |-> Undefined, data |-> data, details |-> NoDetail]

createErrorResult(message, code, details) ==
  [defined |-> TRUE, message |-> message, code |-> code, data |-> NoDetail, details |-> details]

isErrorResult(result) == result.code # Undefined

\* ---------------------------------------------------- JobPayload / JobConfig
\* `!payload` and `typeof payload` (a non-empty string stands for the primitives).
Falsy(payload) == payload.kind \in {"undefined", "null"}

TypeOf(payload) ==
  IF payload.kind \in {"null", "array", "object"} THEN "object" ELSE payload.kind

PayloadError(payload) ==
  IF Falsy(payload) \/ TypeOf(payload) # "object" THEN "Payload must be a valid object"
  ELSE IF Cardinality(payload.keys) = 0 THEN "Payload cannot be empty"
  ELSE ""

normalizeJobConfig(config) ==
  IF config.hasDelay THEN config.delay ELSE DEFAULT_JOB_CONFIG.delay

ConfigError_Never(config) == ""

ConfigError(config) ==
  IF normalizeJobConfig(config) < 0 THEN "Delay must be a non-negative number" ELSE ""

\* ------------------------------------------------------------ JobFactory
NoJob == [id |-> 0, status |-> "absent", type |-> "", payload |-> NullPayload, delay |-> 0,
          created_at |-> Undefined, eligible_at |-> Undefined, started_at |-> Undefined,
          finished_at |-> Undefined, execution_time |-> Undefined, result |-> NoResult]

CreateError(payload, config) ==
  IF PayloadError(payload) # "" THEN PayloadError(payload) ELSE ConfigError(config)

createJob(id, type, payload, config, t) ==
  [id |-> id, status |-> PENDING, type |-> type, payload |-> payload,
   delay |-> normalizeJobConfig(config),
   created_at |-> t, eligible_at |-> t + normalizeJobConfig(config), started_at |-> Undefined,
   finished_at |-> Undefined, execution_time |-> Undefined, result |-> NoResult]

StartError_FinishedOnly(job) ==
  IF job.status \in {RUNNING, COMPLETED, FAILED}
  THEN "Cannot start job in " \o job.status \o " status" ELSE ""

StartError_NoCheck(job) == ""

StartError(job) ==
  IF job.status # PENDING THEN "Cannot start job in " \o job.status \o " status" ELSE ""

startJob_Reschedules(job, t) == [job EXCEPT !.status = RUNNING, !.started_at = t, !.eligible_at = t]

startJob(job, t) == [job EXCEPT !.status = RUNNING, !.started_at = t]

FinishError_PendingOk(job, verb) ==
  IF job.status \notin {RUNNING, PENDING}
  THEN "Cannot " \o verb \o " job in " \o job.status \o " status" ELSE ""

FinishError(job, verb) ==
  IF job.status # RUNNING THEN "Cannot " \o verb \o " job in " \o job.status \o " status" ELSE ""

ExecutionTime(job, t) ==
  IF job.started_at # Undefined /\ job.started_at # 0 THEN t - job.started_at ELSE 0

completeJob(job, result, t) ==
  [job EXCEPT !.status = COMPLETED, !.result = result,
              !.execution_time = ExecutionTime(job, t), !.finished_at = t]

failJob(job, result, t) ==
  [job EXCEPT !.status = FAILED, !.result = result,
              !.execution_time = ExecutionTime(job, t), !.finished_at = t]

CancelError(job) ==
  IF job.status # PENDING THEN "Cannot cancel job in " \o job.status \o " status" ELSE ""

cancelJob_Timed(job, t) ==
  [job EXCEPT !.status = CANCELLED,
              !.result = createErrorResult("Job was cancelled", CANCEL_CODE, NoDetail),
              !.execution_time = 0,
              !.finished_at = t]

cancelJob(job, t) ==
  [job EXCEPT !.status = CANCELLED,
              !.result = createErrorResult("Job was cancelled", CANCEL_CODE, NoDetail),
              !.finished_at = t]

isEligible_Strict(job, t) == t > job.eligible_at

isEligible(job, t) == t >= job.eligible_at

isTerminal_Finished(job) == job.status \in {COMPLETED, FAILED}

isTerminal(job) == job.status \in {COMPLETED, FAILED, CANCELLED}

\* -------------------------------------------------------------- JobQueue
IndexOf(m, id) ==
  IF \E i \in 1..Len(m) : m[i].id = id
  THEN CHOOSE i \in 1..Len(m) : m[i].id = id
  ELSE 0

hasJob(m, id) == IndexOf(m, id) # 0

getJobById(m, id) == IF hasJob(m, id) THEN m[IndexOf(m, id)] ELSE NoJob

\* Map.prototype.set: an existing key keeps its place, a new key goes last.
MapSet_FirstSlot(m, job) ==
  IF hasJob(m, job.id) THEN [m EXCEPT ![1] = job] ELSE Append(m, job)

MapSet(m, job) ==
  IF hasJob(m, job.id) THEN [m EXCEPT ![IndexOf(m, job.id)] = job] ELSE Append(m, job)

addJob(m, job) == MapSet(m, job)

updateJob_DropsFinished(m, job) ==
  LET Others(j) == j.id # job.id
  IN IF isTerminal(job) THEN SelectSeq(m, Others) ELSE MapSet(m, job)

updateJob_Reinsert(m, job) ==
  LET Others(j) == j.id # job.id IN Append(SelectSeq(m, Others), job)

UpdateError_Never(m, job) == ""

UpdateError(m, job) ==
  IF ~hasJob(m, job.id) THEN "Job with id " \o ToString(job.id) \o " not found" ELSE ""

updateJob(m, job) == MapSet(m, job)

Filter(s, Keep(_)) == SelectSeq(s, Keep)

\* Array.prototype.sort with (a, b) => a.created_at - b.created_at: stable.
RECURSIVE InsertByCreatedAt(_, _)
InsertByCreatedAt_Unstable(sorted, job) ==
  IF sorted = <<>> THEN <<job>>
  ELSE IF Head(sorted).created_at - job.created_at < 0
       THEN <<Head(sorted)>> \o InsertByCreatedAt(Tail(sorted), job)
       ELSE <<job>> \o sorted

InsertByCreatedAt(sorted, job) ==
  IF sorted = <<>> THEN <<job>>
  ELSE IF Head(sorted).created_at - job.created_at <= 0
       THEN <<Head(sorted)>> \o InsertByCreatedAt(Tail(sorted), job)
       ELSE <<job>> \o sorted

RECURSIVE SortByCreatedAt(_)
SortByCreatedAt(s) ==
  IF s = <<>> THEN <<>>
  ELSE InsertByCreatedAt(SortByCreatedAt(SubSeq(s, 1, Len(s) - 1)), s[Len(s)])

EligibleFilter_UndelayedOnly(job, t) ==
  job.status = PENDING /\ isEligible(job, t) /\ job.eligible_at = job.created_at

EligibleFilter_NoStatus(job, t) == isEligible(job, t)

EligibleFilter(job, t) == job.status = PENDING /\ isEligible(job, t)

getNextEligibleJob(m, t) ==
  LET Keep(job) == EligibleFilter(job, t)
      eligibleJobs == Filter(m, Keep)
  IN IF Len(eligibleJobs) = 0 THEN NoJob ELSE SortByCreatedAt(eligibleJobs)[1]

CountJob_SkipCancelled(counts, job) ==
  IF job.status = CANCELLED THEN counts ELSE [counts EXCEPT ![job.status] = @ + 1]

\* counts[job.status]++
CountJob(counts, job) == [counts EXCEPT ![job.status] = @ + 1]

RECURSIVE CountJobs(_, _)
CountJobs(counts, values) ==
  IF values = <<>> THEN counts ELSE CountJobs(CountJob(counts, Head(values)), Tail(values))

getJobCounts(m) == CountJobs([status \in JobStatus |-> 0], m)

listJobs(m, status) ==
  LET Keep(job) == job.status = status IN Filter(m, Keep)

getTotalJobs(m) == Len(m)

\* ------------------------------------------------- InMemoryJobRepository
\* save() throws only if the updateJob it calls does.
SaveError(m, job) == IF hasJob(m, job.id) THEN UpdateError(m, job) ELSE ""

save_AlwaysAdd(m, job) == Append(m, job)

save(m, job) == IF hasJob(m, job.id) THEN updateJob(m, job) ELSE addJob(m, job)

findById(m, id) == getJobById(m, id)

\* GetJobStatusUseCase.execute: the snapshot findById returns.
GetJobStatusError(id, job) ==
  IF job = NoJob THEN "Job with id " \o ToString(id) \o " not found" ELSE ""

getStatus(m, id) == findById(m, id)

\* ------------------------------------------------------------ JobExecutor
\* Math.random() is r / RandDen for r in Rand.
generateExecutionTime_NoMinimum(r) ==
  (r * (MAX_EXECUTION_TIME - MIN_EXECUTION_TIME + 1)) \div RandDen

generateExecutionTime(r) ==
  ((r * (MAX_EXECUTION_TIME - MIN_EXECUTION_TIME + 1)) \div RandDen) + MIN_EXECUTION_TIME

shouldFail_Never(r) == FALSE

shouldFail(r) == r * FAILURE_RATE_DEN < FAILURE_RATE_NUM * RandDen

errorCodes_WithCancel == <<CANCEL_CODE, 502, 503, 504>>

errorCodes == <<500, 502, 503, 504>>

generateErrorCode(r) == errorCodes[((r * Len(errorCodes)) \div RandDen) + 1]

generateSuccessMessage(jobType) ==
  CASE jobType = "email" -> "Email sent successfully!"
    [] jobType = "sms" -> "SMS sent successfully!"
    [] jobType = "notification" -> "Notification delivered successfully!"
    [] jobType = "webhook" -> "Webhook called successfully!"
    [] OTHER -> "Job of type '" \o jobType \o "' completed successfully!"

generateFailureMessage(jobType) ==
  CASE jobType = "email" -> "Failed to call SMTP service"
    [] jobType = "sms" -> "Failed to call SMS gateway"
    [] jobType = "notification" -> "Failed to deliver notification"
    [] jobType = "webhook" -> "Failed to call webhook endpoint"
    [] OTHER -> "Failed to execute job of type '" \o jobType \o "'"

\* The part of executeJob after `await this.simulateExecution()`.
executeJobResult(job, failDraw, codeDraw, t) ==
  IF shouldFail(failDraw)
  THEN failJob(job, createErrorResult(generateFailureMessage(job.type),
                                      generateErrorCode(codeDraw),
                                      [jobType |-> job.type, at |-> t]), t)
  ELSE completeJob(job, createSuccessResult(generateSuccessMessage(job.type),
                                            [jobType |-> job.type, at |-> t]), t)

executeJobError(job, failDraw) ==
  IF shouldFail(failDraw) THEN FinishError(job, "fail") ELSE FinishError(job, "complete")

\* The part of executeJob before the await: simulateExecution arms a timer.
Call(job, durDraw, via) ==
  [job |-> job, due |-> now + generateExecutionTime(durDraw), via |-> via]

\* -------------------------------------------------------------------- Init
NoCall ==
  [op |-> "", input |-> NoJob, payload |-> NullPayload, config |-> NoConfig,
   result |-> NoResult, at |-> Undefined, error |-> "", output |-> NoJob]

\* The state after construction, at clock value t.
InitAt(t) ==
  /\ now = t
  /\ call = NoCall
  /\ jobs = <<>>
  /\ nextId = 1
  /\ inflight = {}
  /\ cancelQ = <<>>
  /\ isRunning = FALSE
  /\ processingInterval = FALSE
  /\ timers = 0
  /\ startCount = [i \in Ids |-> 0]
  /\ isInitialized = FALSE

\* The service runs on the wall clock: Date.now() is positive.
Init == InitAt(1)

\* ------------------------------------------------------------------- clock
PendingJobs == {jobs[i] : i \in {k \in 1..Len(jobs) : jobs[k].status = PENDING}}

EventTimes == {j.eligible_at : j \in PendingJobs} \cup {c.due : c \in inflight}

NextTimes ==
  {t \in EventTimes : t > now} \cup (IF now < MaxIdleClock THEN {now + 1} ELSE {})

Advance ==
  /\ cancelQ = <<>>
  /\ \E t \in NextTimes : now' = t
  /\ UNCHANGED <<jobs, nextId, inflight, cancelQ, isRunning, processingInterval, timers, startCount, call, isInitialized>>

\* --------------------------------------------------------- SubmitJobUseCase
Submit(type, payload, config) ==
  IF CreateError(payload, config) # ""
  THEN UNCHANGED vars
  ELSE /\ nextId <= MaxJobs
       /\ jobs' = save(jobs, createJob(nextId, type, payload, config, now))
       /\ nextId' = nextId + 1
       /\ UNCHANGED <<now, inflight, cancelQ, isRunning, processingInterval, timers, startCount, call, isInitialized>>

\* --------------------------------------------------------- CancelJobUseCase
\* execute(jobId) up to `await this.repository.findById(jobId)`.
CancelCall(id) ==
  /\ Len(cancelQ) < MaxCancels
  /\ cancelQ' = Append(cancelQ, [id |-> id, job |-> findById(jobs, id)])
  /\ UNCHANGED <<now, jobs, nextId, inflight, isRunning, processingInterval, timers, startCount, call, isInitialized>>

CancelUseCaseError_NotFoundOnly(id, job) ==
  IF job = NoJob THEN "Job with id " \o ToString(id) \o " not found" ELSE ""

CancelUseCaseError(id, job) ==
  IF job = NoJob THEN "Job with id " \o ToString(id) \o " not found"
  ELSE IF job.status # PENDING
       THEN "Cannot cancel job in " \o job.status \o " status. Only PENDING jobs can be cancelled."
       ELSE CancelError(job)

\* execute(jobId) from the await on, with the snapshot findById returned.
CancelResume ==
  /\ cancelQ # <<>>
  /\ LET c == Head(cancelQ)
     IN IF CancelUseCaseError(c.id, c.job) # ""
        THEN jobs' = jobs
        ELSE jobs' = save(jobs, cancelJob(c.job, now))
  /\ cancelQ' = Tail(cancelQ)
  /\ UNCHANGED <<now, nextId, inflight, isRunning, processingInterval, timers, startCount, call, isInitialized>>

\* ------------------------------------------------------------- JobProcessor
StartWarning_Never == ""

StartWarning == IF isRunning THEN "JobProcessor is already running" ELSE ""

ProcessorStart ==
  /\ IF StartWarning # ""
     THEN UNCHANGED <<isRunning, processingInterval, timers>>
     ELSE /\ isRunning' = TRUE
          /\ processingInterval' = TRUE
          /\ timers' = timers + 1
  /\ UNCHANGED <<now, jobs, nextId, inflight, cancelQ, startCount, call, isInitialized>>

StopWarning == IF ~isRunning THEN "JobProcessor is not running" ELSE ""

ProcessorStop_KeepsTimer ==
  /\ IF StopWarning # ""
     THEN UNCHANGED <<isRunning, processingInterval, timers>>
     ELSE /\ isRunning' = FALSE
          /\ UNCHANGED <<processingInterval, timers>>
  /\ UNCHANGED <<now, jobs, nextId, inflight, cancelQ, startCount, call, isInitialized>>

ProcessorStop ==
  /\ IF StopWarning # ""
     THEN UNCHANGED <<isRunning, processingInterval, timers>>
     ELSE /\ isRunning' = FALSE
          /\ IF processingInterval
             THEN processingInterval' = FALSE /\ timers' = timers - 1
             ELSE UNCHANGED <<processingInterval, timers>>
  /\ UNCHANGED <<now, jobs, nextId, inflight, cancelQ, startCount, call, isInitialized>>

isProcessing == isRunning

\* The claim step shared by processNextJob and processJobById: startJob,
\* updateJob, then the call of executeJob.
ClaimError_Busy(job) ==
  IF inflight # {} THEN "A job is already running"
  ELSE IF StartError(job) # "" THEN StartError(job) ELSE UpdateError(jobs, startJob(job, now))

ClaimError(job) ==
  IF StartError(job) # "" THEN StartError(job) ELSE UpdateError(jobs, startJob(job, now))

Claim_Twice(job, durDraw, via) ==
  LET runningJob == startJob(job, now)
  IN /\ jobs' = updateJob(jobs, runningJob)
     /\ inflight' = inflight \cup {Call(runningJob, durDraw, via), Call(runningJob, RandDen - 1 - durDraw, via)}
     /\ startCount' = [startCount EXCEPT ![job.id] = @ + 1]

Claim(job, durDraw, via) ==
  LET runningJob == startJob(job, now)
  IN /\ jobs' = updateJob(jobs, runningJob)
     /\ inflight' = inflight \cup {Call(runningJob, durDraw, via)}
     /\ startCount' = [startCount EXCEPT ![job.id] = @ + 1]

\* processNextJob wraps all it does in try / catch: whatever is thrown or
\* rejected inside a tick is caught and logged.
TickCatch_Nothing(error) == FALSE

TickCatch(error) == TRUE

\* An error that leaves processNextJob is the rejection of a promise nobody
\* handles, which ends the process and with it the loop; an error of
\* processJobById goes to its caller.
Escapes(via, error) == error # "" /\ via = "tick" /\ ~TickCatch(error)

LoopAfter(via, error) ==
  IF Escapes(via, error)
  THEN isRunning' = FALSE /\ processingInterval' = FALSE /\ timers' = 0
  ELSE UNCHANGED <<isRunning, processingInterval, timers>>

\* processJobById has no try / catch: what is thrown or rejected after its
\* await rejects the promise it returned, and its caller gets the error.
ProcessByIdCatch_All(error) == TRUE

ProcessByIdCatch(error) == FALSE

Rethrown(via, error) ==
  IF via = "byId" /\ error # "" /\ ~ProcessByIdCatch(error)
  THEN call' = [NoCall EXCEPT !.op = "processJobById", !.error = error]
  ELSE UNCHANGED call

\* One firing of the setInterval timer: processNextJob up to its await.
Tick ==
  /\ timers > 0
  /\ cancelQ = <<>>
  /\ LET job == getNextEligibleJob(jobs, now)
         error == IF job = NoJob THEN "" ELSE ClaimError(job)
     IN /\ IF job = NoJob \/ error # ""
           THEN UNCHANGED <<jobs, inflight, startCount>>
           ELSE \E durDraw \in Rand : Claim(job, durDraw, "tick")
        /\ LoopAfter("tick", error)
  /\ UNCHANGED <<now, nextId, cancelQ, call, isInitialized>>

\* processJobById up to its await.
ProcessByIdError_AnyStatus(id, job) ==
  IF job = NoJob THEN "Job with id " \o ToString(id) \o " not found"
  ELSE IF ~isEligible(job, now)
       THEN "Job " \o ToString(id) \o " is not eligible yet (delay not fulfilled)"
  ELSE ""

ProcessByIdError_NoEligibility(id, job) ==
  IF job = NoJob THEN "Job with id " \o ToString(id) \o " not found" ELSE ClaimError(job)

ProcessByIdError(id, job) ==
  IF job = NoJob THEN "Job with id " \o ToString(id) \o " not found"
  ELSE IF ~isEligible(job, now)
       THEN "Job " \o ToString(id) \o " is not eligible yet (delay not fulfilled)"
  ELSE ClaimError(job)

ProcessJobById(id) ==
  /\ LET job == getJobById(jobs, id)
     IN IF ProcessByIdError(id, job) # ""
        THEN UNCHANGED <<jobs, inflight, startCount>>
        ELSE \E durDraw \in Rand : Claim(job, durDraw, "byId")
  /\ UNCHANGED <<now, nextId, cancelQ, isRunning, processingInterval, timers, call, isInitialized>>

\* An executor timer fires: executeJob resumes, then its caller writes the
\* finished snapshot (processNextJob swallows an error, processJobById rethrows).
FinishError2(c, failDraw, finishedJob) ==
  IF executeJobError(c.job, failDraw) # "" THEN executeJobError(c.job, failDraw)
  ELSE UpdateError(jobs, finishedJob)

ExecutorDone(c) ==
  /\ c \in inflight
  /\ now >= c.due
  /\ cancelQ = <<>>
  /\ inflight' = inflight \ {c}
  /\ \E failDraw \in Rand, codeDraw \in Rand :
       LET finishedJob == executeJobResult(c.job, failDraw, codeDraw, now)
           error == FinishError2(c, failDraw, finishedJob)
       IN /\ jobs' = IF error # "" THEN jobs ELSE updateJob(jobs, finishedJob)
          /\ LoopAfter(c.via, error)
          /\ Rethrown(c.via, error)
  /\ UNCHANGED <<now, nextId, cancelQ, startCount, isInitialized>>

\* -------------------------------------------------------------------- Next
Next ==
  \/ Advance
  \/ \E type \in Types, payload \in ServicePayloads, config \in Configs :
       Submit(type, payload, config)
  \/ \E id \in Ids : CancelCall(id)
  \/ CancelResume
  \/ ProcessorStart
  \/ ProcessorStop
  \/ Tick
  \/ \E id \in Ids : ProcessJobById(id)
  \/ \E c \in inflight : ExecutorDone(c)

Spec == Init /\ [][Next]_vars

\* ------------------------------------------- the service with faults
\* The JobProcessor takes any executor: one whose executeJob rejects (as the
\* executors its tests pass in do) leaves the awaiting processNextJob or
\* processJobById with an error instead of a finished snapshot.
ExecutorReject(c) ==
  /\ c \in inflight
  /\ now >= c.due
  /\ cancelQ = <<>>
  /\ inflight' = inflight \ {c}
  /\ LoopAfter(c.via, "Execution failed")
  /\ Rethrown(c.via, "Execution failed")
  /\ UNCHANGED <<now, jobs, nextId, cancelQ, startCount, isInitialized>>

\* JobQueue.clear(): the jobs in flight are no longer stored, so the
\* updateJob that follows their execution throws.
StoreClear ==
  /\ jobs # <<>>
  /\ cancelQ = <<>>
  /\ jobs' = <<>>
  /\ UNCHANGED <<now, nextId, inflight, cancelQ, isRunning, processingInterval, timers, startCount, call, isInitialized>>

FaultyNext ==
  \/ Next
  \/ \E c \in inflight : ExecutorReject(c)
  \/ StoreClear

SpecFaulty == Init /\ [][FaultyNext]_vars

\* ---------------------------------------------------------------- JobWorker
\* JobProcessor.start and stop as functions of the processor's fields, for
\* the calls JobWorker makes one after the other.
Processor ==
  [isRunning |-> isRunning, processingInterval |-> processingInterval, timers |-> timers]

processorStart(p) ==
  IF p.isRunning THEN p
  ELSE [isRunning |-> TRUE, processingInterval |-> TRUE, timers |-> p.timers + 1]

processorStop(p) ==
  IF ~p.isRunning THEN p
  ELSE [isRunning |-> FALSE, processingInterval |-> FALSE,
        timers |-> IF p.processingInterval THEN p.timers - 1 ELSE p.timers]

Worker == [isInitialized |-> isInitialized, processor |-> Processor]

workerStart(w) ==
  IF w.isInitialized THEN w
  ELSE [isInitialized |-> TRUE, processor |-> processorStart(w.processor)]

workerStop_KeepsFlag(w) ==
  IF ~w.isInitialized THEN w
  ELSE [isInitialized |-> TRUE, processor |-> processorStop(w.processor)]

workerStop(w) ==
  IF ~w.isInitialized THEN w
  ELSE [isInitialized |-> FALSE, processor |-> processorStop(w.processor)]

workerRestart(w) == workerStart(workerStop(w))

WorkerIsRunning == isInitialized /\ isProcessing

WorkerBecomes(w) ==
  /\ isInitialized' = w.isInitialized
  /\ isRunning' = w.processor.isRunning
  /\ processingInterval' = w.processor.processingInterval
  /\ timers' = w.processor.timers
  /\ UNCHANGED <<now, jobs, nextId, inflight, cancelQ, startCount, call>>

WorkerStart == WorkerBecomes(workerStart(Worker))

WorkerStop == WorkerBecomes(workerStop(Worker))

WorkerRestart == WorkerBecomes(workerRestart(Worker))

\* The service whose loop is started and stopped through the JobWorker.
WorkerNext ==
  \/ Advance
  \/ \E type \in Types, payload \in ServicePayloads, config \in Configs :
       Submit(type, payload, config)
  \/ \E id \in Ids : CancelCall(id)
  \/ CancelResume
  \/ WorkerStart
  \/ WorkerStop
  \/ WorkerRestart
  \/ Tick
  \/ \E id \in Ids : ProcessJobById(id)
  \/ \E c \in inflight : ExecutorDone(c)

SpecWorker == Init /\ [][WorkerNext]_vars

\* ------------------------------------------------ the JobQueue on its own
\* JobQueue driven directly through addJob / updateJob with any snapshot of
\* any status, as its unit tests drive it, under any clock value.
QueueIds == 1..MaxQueueJobs

QueueSnapshot(id, status, created, delay) ==
  LET pendingJob == createJob(id, "email", OkPayload, Config(delay), created)
      runningJob == startJob(pendingJob, created + delay)
  IN CASE status = PENDING -> pendingJob
       [] status = RUNNING -> runningJob
       [] status = COMPLETED ->
            completeJob(runningJob, createSuccessResult("Success", NoDetail), created + delay)
       [] status = FAILED ->
            failJob(runningJob, createErrorResult("Error", 500, NoDetail), created + delay)
       [] OTHER -> cancelJob(pendingJob, created)

QueueSnapshots(id) ==
  {QueueSnapshot(id, status, created, delay) :
     status \in JobStatus, created \in 0..MaxQueueClock, delay \in 0..MaxDelay}

QueueAddJob(job) ==
  /\ jobs' = addJob(jobs, job)
  /\ nextId' = IF hasJob(jobs, job.id) THEN nextId ELSE nextId + 1
  /\ UNCHANGED <<now, inflight, cancelQ, isRunning, processingInterval, timers, startCount, call, isInitialized>>

\* The store after a call of updateJob, which throws before it writes.
AfterUpdateJob(m, job) == IF UpdateError(m, job) # "" THEN m ELSE updateJob(m, job)

QueueUpdateJob(job) ==
  /\ jobs' = AfterUpdateJob(jobs, job)
  /\ UNCHANGED <<now, nextId, inflight, cancelQ, isRunning, processingInterval, timers, startCount, call, isInitialized>>

QueueAdvance ==
  /\ now < MaxQueueClock
  /\ now' = now + 1
  /\ UNCHANGED <<jobs, nextId, inflight, cancelQ, isRunning, processingInterval, timers, startCount, call, isInitialized>>

QueueNext ==
  \/ \E id \in QueueIds : id <= nextId /\ \E job \in QueueSnapshots(id) : QueueAddJob(job)
  \/ \E id \in QueueIds : \E job \in QueueSnapshots(id) : QueueUpdateJob(job)
  \/ QueueAdvance

QueueInit == InitAt(0)

SpecQueue == QueueInit /\ [][QueueNext]_vars

\* ------------------------------------------------- the store and its clients
\* InMemoryJobRepository.save called directly with any snapshot.
RepositorySave(job) ==
  /\ jobs' = IF SaveError(jobs, job) # "" THEN jobs ELSE save(jobs, job)
  /\ nextId' = IF hasJob(jobs, job.id) THEN nextId ELSE nextId + 1
  /\ UNCHANGED <<now, inflight, cancelQ, isRunning, processingInterval, timers, startCount, call, isInitialized>>

\* The store written by submit, with any payload and config, next to the
\* direct writes of SpecQueue.
StoreNext ==
  \/ \E type \in Types, payload \in Payloads, config \in Configs :
       Submit(type, payload, config)
  \/ \E id \in QueueIds : id <= nextId /\ \E job \in QueueSnapshots(id) : RepositorySave(job)
  \/ QueueNext

SpecStore == QueueInit /\ [][StoreNext]_vars

\* ---------------------------------------------- the JobFactory on its own
\* The JobFactory functions called directly, as their unit tests call them:
\* createJob with any payload and config, and startJob, completeJob, failJob
\* and cancelJob with the snapshot the caller holds, whatever its status,
\* under any clock value from 0 on.  A function that throws returns nothing
\* and the caller keeps the snapshot it passed.
FactoryResults ==
  {createSuccessResult("Success", NoDetail), createErrorResult("Error", 500, NoDetail)}

Subject == IF call.error = "" THEN call.output ELSE call.input

FactoryCall(op, input, result, error, output) ==
  /\ call' = [op |-> op, input |-> input, payload |-> input.payload,
              config |-> Config(input.delay), result |-> result, at |-> now,
              error |-> error, output |-> IF error = "" THEN output ELSE NoJob]
  /\ UNCHANGED <<now, jobs, nextId, inflight, cancelQ, isRunning, processingInterval, timers, startCount, isInitialized>>

FactoryCreate(type, payload, config) ==
  /\ call' = [op |-> "create", input |-> NoJob, payload |-> payload, config |-> config,
              result |-> NoResult, at |-> now, error |-> CreateError(payload, config),
              output |-> IF CreateError(payload, config) = ""
                         THEN createJob(1, type, payload, config, now) ELSE NoJob]
  /\ UNCHANGED <<now, jobs, nextId, inflight, cancelQ, isRunning, processingInterval, timers, startCount, isInitialized>>

FactoryStart ==
  /\ Subject # NoJob
  /\ FactoryCall("start", Subject, NoResult, StartError(Subject), startJob(Subject, now))

FactoryComplete(result) ==
  /\ Subject # NoJob
  /\ FactoryCall("complete", Subject, result, FinishError(Subject, "complete"),
                 completeJob(Subject, result, now))

FactoryFail(result) ==
  /\ Subject # NoJob
  /\ FactoryCall("fail", Subject, result, FinishError(Subject, "fail"),
                 failJob(Subject, result, now))

FactoryCancel ==
  /\ Subject # NoJob
  /\ FactoryCall("cancel", Subject, NoResult, CancelError(Subject), cancelJob(Subject, now))

\* JobExecutor.executeJob called directly with any snapshot, as its unit
\* tests call it; the call is recorded when its timer has fired.
FactoryExecute(failDraw, codeDraw) ==
  /\ Subject # NoJob
  /\ LET error == executeJobError(Subject, failDraw)
         output == executeJobResult(Subject, failDraw, codeDraw, now)
     IN FactoryCall("execute", Subject, IF error = "" THEN output.result ELSE NoResult,
                    error, output)

\* JobFactory.isTerminal called with any snapshot; the recorded op carries
\* the boolean it returned, the snapshot is left as it is.
FactoryIsTerminal ==
  /\ Subject # NoJob
  /\ FactoryCall(IF isTerminal(Subject) THEN "isTerminal: true" ELSE "isTerminal: false",
                 Subject, NoResult, "", Subject)

FactoryAdvance ==
  /\ now < MaxFactoryClock
  /\ now' = now + 1
  /\ UNCHANGED <<jobs, nextId, inflight, cancelQ, isRunning, processingInterval, timers, startCount, call, isInitialized>>

FactoryNext ==
  \/ \E type \in Types, payload \in Payloads, config \in Configs :
       FactoryCreate(type, payload, config)
  \/ FactoryStart
  \/ \E result \in FactoryResults : FactoryComplete(result)
  \/ \E result \in FactoryResults : FactoryFail(result)
  \/ FactoryCancel
  \/ \E failDraw \in Rand, codeDraw \in Rand : FactoryExecute(failDraw, codeDraw)
  \/ FactoryIsTerminal
  \/ FactoryAdvance

FactoryInit == InitAt(0)

SpecFactory == FactoryInit /\ [][FactoryNext]_vars

\* ================================================================== claims
StoredIds == {jobs[k].id : k \in 1..Len(jobs)}
Stored(i) == getJobById(jobs, i)
CallsFor(i) == {c \in inflight : c.job.id = i}
LifecycleEdges ==
  {<<PENDING, RUNNING>>, <<RUNNING, COMPLETED>>, <<RUNNING, FAILED>>, <<PENDING, CANCELLED>>}

\* C1: no job is claimed twice: for every job id executeJob is invoked at
\* most once, at most one executor call is in flight for it, and a stored or
\* in-flight started_at exists only for an id that was claimed (once).
C1_ClaimedAtMostOnce ==
  \A i \in Ids :
    /\ startCount[i] <= 1
    /\ Cardinality(CallsFor(i)) <= startCount[i]
    /\ (hasJob(jobs, i) /\ Stored(i).started_at # Undefined) => startCount[i] = 1

\* C1 witness: a job was claimed, is stored Running with its call in flight,
\* the loop is active and the job is still eligible by time.
C1_Witness ==
  \E i \in StoredIds :
    /\ startCount[i] = 1
    /\ Stored(i).status = RUNNING
    /\ CallsFor(i) # {}
    /\ processingInterval
    /\ isEligible(Stored(i), now)

\* C2: the stored status of every job only moves along Pending->Running,
\* Running->Completed, Running->Failed and Pending->Cancelled.
C2_OnlyLifecycleEdges ==
  [][\A i \in StoredIds :
       \/ getJobById(jobs', i).status = Stored(i).status
       \/ <<Stored(i).status, getJobById(jobs', i).status>> \in LifecycleEdges]_vars

\* C3: in no interleaving is a job both handed to the executor and stored as
\* Cancelled (of a cancel and a claim of the same job exactly one takes effect).
C3_ClaimXorCancel ==
  \A i \in StoredIds : ~(startCount[i] > 0 /\ Stored(i).status = CANCELLED)

\* C4: started_at, finished_at, execution_time and result, once present in a
\* job's stored snapshot, keep their value; a stored snapshot whose status is
\* Completed, Failed or Cancelled never changes again.
C4_SetFieldsAndTerminalSnapshotsFrozen ==
  [][\A i \in StoredIds :
       LET a == Stored(i)
           b == getJobById(jobs', i)
       IN /\ a.started_at # Undefined => b.started_at = a.started_at
          /\ a.finished_at # Undefined => b.finished_at = a.finished_at
          /\ a.execution_time # Undefined => b.execution_time = a.execution_time
          /\ a.result.defined => b.result = a.result
          /\ isTerminal(a) => b = a]_vars

\* ---- getNextEligibleJob (checked under SpecQueue)
StoredJobs == {jobs[k] : k \in 1..Len(jobs)}
EligibleNow == {j \in StoredJobs : j.status = PENDING /\ j.eligible_at <= now}
MinCreated(S) == CHOOSE t \in {j.created_at : j \in S} : \A j \in S : t <= j.created_at
Earliest(S) == {j \in S : j.created_at = MinCreated(S)}
MinId(S) == CHOOSE i \in {j.id : j \in S} : \A j \in S : i <= j.id

\* C5: getNextEligibleJob returns absent iff no stored job is Pending with
\* eligible_at <= now; otherwise it returns a stored Pending job with
\* eligible_at <= now whose created_at is the least among those jobs.
C5_NextEligibleIsEarliestEligiblePending ==
  LET r == getNextEligibleJob(jobs, now)
  IN /\ (r = NoJob) <=> (EligibleNow = {})
     /\ r # NoJob =>
          /\ r \in StoredJobs
          /\ r.status = PENDING
          /\ r.eligible_at <= now
          /\ \A j \in EligibleNow : r.created_at <= j.created_at

\* C5 witness: the job returned was inserted after a Pending eligible job
\* that was created later (the order by created_at decides), and a stored job
\* that is not Pending or not yet eligible was created no later than it (the
\* filter decides).
C5_Witness ==
  LET r == getNextEligibleJob(jobs, now)
  IN /\ r # NoJob
     /\ \E j \in EligibleNow :
          IndexOf(jobs, j.id) < IndexOf(jobs, r.id) /\ j.created_at > r.created_at
     /\ \E j \in StoredJobs \ EligibleNow : j.created_at <= r.created_at

\* C6: among the Pending eligible jobs that share the least created_at,
\* getNextEligibleJob returns the one inserted first.  Under SpecQueue ids are
\* handed out in the order of first insertion, so that is the least id,
\* whatever addJob / updateJob writes came later.
C6_TieBrokenByFirstInsertion ==
  LET r == getNextEligibleJob(jobs, now)
  IN EligibleNow # {} => r.id = MinId(Earliest(EligibleNow))

\* C6 witness: three Pending eligible jobs, the first created later than the
\* other two, which tie; the earlier inserted of the two is returned.
C6_Witness ==
  /\ Len(jobs) = 3
  /\ EligibleNow = StoredJobs
  /\ jobs[1].created_at > jobs[2].created_at
  /\ jobs[2].created_at = jobs[3].created_at
  /\ getNextEligibleJob(jobs, now).id = jobs[2].id

\* ---- claim order and delays (checked under Spec)
Before(a, b) ==
  \/ a.created_at < b.created_at
  \/ a.created_at = b.created_at /\ IndexOf(jobs, a.id) < IndexOf(jobs, b.id)

\* C7: when a tick claims job J, no other stored job is Pending, eligible and
\* before J by (created_at, insertion order); so every job submitted before J
\* with delay 0 has already left Pending.
C7_TickClaimsFirstInOrder ==
  [][\A c \in inflight' \ inflight :
       c.via = "tick" =>
         LET J == Stored(c.job.id)
         IN /\ J.status = PENDING
            /\ \A k \in StoredIds \ {J.id} :
                 ~(Stored(k).status = PENDING /\ Stored(k).eligible_at <= now /\ Before(Stored(k), J))
            /\ \A k \in StoredIds :
                 (k < J.id /\ Stored(k).delay = 0) => Stored(k).status # PENDING]_vars

\* C7 witness: two jobs submitted at the same instant with delay 0; a tick has
\* just claimed the first while the second is still Pending and eligible.
C7_Witness ==
  /\ Len(jobs) = 2
  /\ jobs[1].created_at = jobs[2].created_at
  /\ jobs[1].delay = 0 /\ jobs[2].delay = 0
  /\ jobs[1].status = RUNNING /\ jobs[1].started_at = now
  /\ \E c \in inflight : c.via = "tick" /\ c.job.id = jobs[1].id
  /\ jobs[2].status = PENDING

\* C8: every job that was started, by a tick or by processJobById, has
\* started_at >= eligible_at; getNextEligibleJob returns no job before its
\* eligible_at and does return one as soon as now = eligible_at.
C8_DelayRespected ==
  /\ \A j \in StoredJobs : j.started_at # Undefined => j.started_at >= j.eligible_at
  /\ \A c \in inflight : c.job.started_at >= c.job.created_at + c.job.delay
  /\ getNextEligibleJob(jobs, now) # NoJob =>
       now >= getNextEligibleJob(jobs, now).created_at + getNextEligibleJob(jobs, now).delay
  /\ (\E j \in StoredJobs : j.status = PENDING /\ j.created_at + j.delay <= now)
       => getNextEligibleJob(jobs, now) # NoJob

\* C8 witness: a job with a delay > 0 was started at the very instant it
\* became eligible.
C8_Witness ==
  \E j \in StoredJobs :
    /\ j.delay > 0
    /\ j.status = RUNNING
    /\ j.started_at = j.eligible_at
    /\ now = j.eligible_at

\* C9 as stated: no step moves a stored status out of Pending before the
\* job's eligible_at.
C9_NoExitFromPendingBeforeEligible ==
  [][\A i \in StoredIds :
       (Stored(i).status = PENDING /\ getJobById(jobs', i).status # PENDING)
         => now >= Stored(i).eligible_at]_vars

\* C9 amended: no step other than a cancel moves a stored status out of
\* Pending before the job's eligible_at (a cancel may, at any instant).
C9_OnlyCancelExitsPendingBeforeEligible ==
  [][\A i \in StoredIds :
       (Stored(i).status = PENDING /\ getJobById(jobs', i).status \notin {PENDING, CANCELLED})
         => now >= Stored(i).eligible_at]_vars

\* C9 witness: one job was cancelled before its eligible_at, another job with
\* a delay was started, not before its eligible_at.
C9_Witness ==
  /\ \E j \in StoredJobs : j.status = CANCELLED /\ j.finished_at < j.eligible_at
  /\ \E j \in StoredJobs : j.status = RUNNING /\ j.delay > 0 /\ startCount[j.id] = 1

\* C10: a cancel call is decided by the status stored when it is made:
\* unknown id, NotFound; Running, Completed, Failed or Cancelled, an error
\* naming that status; in both cases the store is not written; Pending, the
\* Cancelled snapshot with code 499 and message "Job was cancelled" is stored.
CancelMessages(status) ==
  {"Cannot cancel job in " \o status \o " status. Only PENDING jobs can be cancelled.",
   "Cannot cancel job in " \o status \o " status"}

C10_CancelOnlyFromPending ==
  [][/\ Len(cancelQ') > Len(cancelQ) =>
          cancelQ'[Len(cancelQ')].job = Stored(cancelQ'[Len(cancelQ')].id)
     /\ (cancelQ # <<>> /\ cancelQ' = Tail(cancelQ)) =>
          LET c == Head(cancelQ)
              error == CancelUseCaseError(c.id, c.job)
              after == getJobById(jobs', c.id)
          IN /\ c.job = NoJob =>
                  (error = "Job with id " \o ToString(c.id) \o " not found" /\ jobs' = jobs)
             /\ c.job.status \in {RUNNING, COMPLETED, FAILED, CANCELLED} =>
                  (error \in CancelMessages(c.job.status) /\ jobs' = jobs)
             /\ c.job.status = PENDING =>
                  /\ error = ""
                  /\ after.status = CANCELLED
                  /\ after.result.code = 499
                  /\ after.result.message = "Job was cancelled"
                  /\ after.id = c.id]_vars

\* C10 witness: a Pending job was cancelled and never claimed, while a cancel
\* of a job that is Running is about to be rejected.
C10_Witness ==
  /\ \E j \in StoredJobs :
       j.status = CANCELLED /\ j.result.code = 499 /\ startCount[j.id] = 0
  /\ cancelQ # <<>>
  /\ Head(cancelQ).job.status = RUNNING

\* ---- the JobFactory functions (checked under SpecFactory)
\* C11: createJob fails for a payload that is missing, not a mapping or
\* empty and for every negative delay; on any other input it returns a
\* Pending snapshot with created_at = now, delay defaulting to 0,
\* eligible_at = created_at + delay >= created_at, and no started_at,
\* finished_at, execution_time or result.
C11_CreateValidatesAndInitialises ==
  call.op = "create" =>
    LET invalid == \/ call.payload.kind # "object"
                   \/ call.payload.keys = {}
                   \/ (call.config.hasDelay /\ call.config.delay < 0)
        delay == IF call.config.hasDelay THEN call.config.delay ELSE 0
        job == call.output
    IN IF invalid
       THEN call.error # "" /\ job = NoJob
       ELSE /\ call.error = ""
            /\ job.status = PENDING
            /\ job.created_at = call.at
            /\ job.delay = delay
            /\ job.eligible_at = job.created_at + delay
            /\ job.eligible_at >= job.created_at
            /\ job.started_at = Undefined
            /\ job.finished_at = Undefined
            /\ job.execution_time = Undefined
            /\ job.result = NoResult

\* C13: startJob and cancelJob reject every source status but Pending,
\* completeJob and failJob every source status but Running; the error names
\* the current status, nothing is returned and the snapshot the caller
\* passed is the one it still holds.
C13_IllegalSourceRejected ==
  LET status == call.input.status
      Rejected(verb) ==
        /\ call.error = "Cannot " \o verb \o " job in " \o status \o " status"
        /\ call.output = NoJob
        /\ Subject = call.input
        /\ Subject.status = status
  IN /\ (call.op \in {"start", "cancel"} /\ status \in {RUNNING, COMPLETED, FAILED, CANCELLED})
          => Rejected(call.op)
     /\ (call.op \in {"complete", "fail"} /\ status \in {PENDING, COMPLETED, FAILED, CANCELLED})
          => Rejected(call.op)

\* C13 witness: completeJob was just rejected for a Cancelled snapshot.
C13_Witness ==
  /\ call.op = "complete"
  /\ call.input.status = CANCELLED
  /\ call.error = "Cannot complete job in cancelled status"

\* C14: every snapshot completeJob or failJob returns has finished_at equal
\* to the clock value of the call and execution_time = finished_at -
\* started_at, whatever the clock value the job was started at.
C14_ExecutionTimeIsFinishedMinusStarted ==
  (call.op \in {"complete", "fail"} /\ call.error = "") =>
    /\ call.output.finished_at = call.at
    /\ call.output.execution_time = call.output.finished_at - call.input.started_at

\* ---- submit (checked under SpecStore)
\* C12: a submit whose payload is missing, not a mapping or empty, or whose
\* delay is negative, leaves the store as it is; any other submit appends
\* exactly one snapshot, Pending, under an id not stored before, carrying the
\* submitted payload, leaves the snapshots stored before as they are, and
\* getStatus of the new id returns that snapshot.
C12_SubmitStoresOnlyValidInput ==
  [][\A type \in Types, payload \in Payloads, config \in Configs :
       Submit(type, payload, config) =>
         LET invalid == \/ payload.kind # "object"
                        \/ payload.keys = {}
                        \/ (config.hasDelay /\ config.delay < 0)
         IN IF invalid
            THEN jobs' = jobs
            ELSE /\ Len(jobs') = Len(jobs) + 1
                 /\ SubSeq(jobs', 1, Len(jobs)) = jobs
                 /\ LET job == jobs'[Len(jobs')]
                    IN /\ job.status = PENDING
                       /\ job.payload = payload
                       /\ ~hasJob(jobs, job.id)
                       /\ GetJobStatusError(job.id, getStatus(jobs', job.id)) = ""
                       /\ getStatus(jobs', job.id) = job]_vars

\* ---- the store contract (checked under SpecQueue)
\* C15: addJob of a job whose id is already stored fails: the stored
\* snapshot is not overwritten, the store stays as it is.
C15_AddJobRejectsStoredId ==
  [][\A id \in QueueIds : \A job \in QueueSnapshots(id) :
       (QueueAddJob(job) /\ hasJob(jobs, job.id)) => jobs' = jobs]_vars

\* C16: in every store state and for every snapshot, updateJob of a
\* snapshot whose id is not stored fails with `Job with id <id> not found` and
\* leaves the store as it is (nothing is inserted); updateJob of a stored id
\* makes the given snapshot the stored one and leaves every other id's
\* snapshot, the order and the number of stored jobs as they are.
C16_UpdateJobReplacesOrRejects ==
  \A id \in QueueIds : \A job \in QueueSnapshots(id) :
    LET after == AfterUpdateJob(jobs, job)
    IN IF ~hasJob(jobs, id)
       THEN /\ UpdateError(jobs, job) = "Job with id " \o ToString(id) \o " not found"
            /\ after = jobs
            /\ ~hasJob(after, id)
       ELSE /\ UpdateError(jobs, job) = ""
            /\ getJobById(after, id) = job
            /\ getTotalJobs(after) = getTotalJobs(jobs)
            /\ \A k \in 1..Len(jobs) :
                 /\ after[k].id = jobs[k].id
                 /\ jobs[k].id # id => after[k] = jobs[k]

\* C16 witness: two jobs are stored, the first with a terminal snapshot that
\* replaced its Pending one after the second was added, and id 3 is not
\* stored: updateJob is rejected for id 3 and replaces for ids 1 and 2.
C16_Witness ==
  /\ Len(jobs) = 2
  /\ nextId = 3
  /\ ~hasJob(jobs, 3)
  /\ jobs[1].status = COMPLETED
  /\ jobs[2].status = PENDING
  /\ jobs[1].created_at = 0 /\ now = 1

\* C17: getJobCounts has one entry per status, each the number of stored
\* snapshots with that status, and the five entries sum to getTotalJobs.
C17_CountsMatchStore ==
  LET counts == getJobCounts(jobs)
  IN /\ DOMAIN counts = JobStatus
     /\ \A status \in JobStatus :
          counts[status] = Cardinality({k \in 1..Len(jobs) : jobs[k].status = status})
     /\ counts[PENDING] + counts[RUNNING] + counts[COMPLETED] + counts[FAILED]
          + counts[CANCELLED] = getTotalJobs(jobs)

\* C17 witness: three stored jobs, of which two are Cancelled and one is
\* Running.
C17_Witness ==
  /\ getTotalJobs(jobs) = 3
  /\ getJobCounts(jobs)[CANCELLED] = 2
  /\ getJobCounts(jobs)[RUNNING] = 1

\* ---- the loop (checked under Spec)
\* C18: isProcessing is false initially; start() leaves the loop running
\* with one timer, stop() leaves it stopped with none; start() on a running
\* loop and stop() on a stopped one only warn and change nothing at all, so a
\* second start or stop is a no-op.
C18_StartStopIdempotent ==
  /\ ~isProcessing
  /\ [][/\ ProcessorStart => (isProcessing' /\ processingInterval' /\ timers' = 1)
        /\ ProcessorStop => (~isProcessing' /\ ~processingInterval' /\ timers' = 0)
        /\ (ProcessorStart /\ isProcessing) =>
             (StartWarning = "JobProcessor is already running" /\ UNCHANGED vars)
        /\ (ProcessorStart /\ ~isProcessing) => StartWarning = ""
        /\ (ProcessorStop /\ ~isProcessing) =>
             (StopWarning = "JobProcessor is not running" /\ UNCHANGED vars)
        /\ (ProcessorStop /\ isProcessing) => StopWarning = ""]_vars

\* C18 witness: the loop was started, claimed a job at a tick and was then
\* stopped while that job is in flight: a further stop() is the no-op case.
C18_Witness ==
  /\ ~isProcessing
  /\ ~processingInterval
  /\ timers = 0
  /\ \E c \in inflight : c.via = "tick"

\* A tick that claims a job.
TickClaims == Tick /\ startCount' # startCount

\* C19 (checked under SpecFaulty): an error in a tick, be it the executor
\* call that rejects or the updateJob that throws, stops nothing: the loop
\* stops running and loses its timer only by stop(); and whenever the loop
\* runs and the store holds a Pending eligible job, a tick that claims a job
\* can fire, whatever errors earlier ticks met.
C19_TickErrorsAreContained ==
  /\ [][((isRunning /\ ~isRunning') \/ timers' < timers) => ProcessorStop]_vars
  /\ []((isRunning /\ cancelQ = <<>> /\ getNextEligibleJob(jobs, now) # NoJob)
          => ENABLED TickClaims)

\* C19 witness: the executor call of one job ended in an error (the job is
\* stored Running with no call in flight), the loop is still running, and a
\* job started after that one has reached a terminal status.
C19_Witness ==
  /\ isRunning
  /\ timers = 1
  /\ \E i \in StoredIds, k \in StoredIds :
       /\ Stored(i).status = RUNNING
       /\ CallsFor(i) = {}
       /\ Stored(k).status \in {COMPLETED, FAILED}
       /\ Stored(k).started_at > Stored(i).started_at

\* C20 (checked under Spec): the loop puts no bound on the jobs in flight.
\* Whenever the loop runs and a Pending eligible job is stored, a tick that
\* claims can fire, however many executor calls are in flight; and a tick
\* that claims adds one call to those in flight and leaves every job that
\* was Running in that status.
C20_NoBoundOnInFlight ==
  /\ []((timers > 0 /\ cancelQ = <<>> /\ inflight # {}
          /\ getNextEligibleJob(jobs, now) # NoJob) => ENABLED TickClaims)
  /\ [][TickClaims =>
          /\ Cardinality(inflight') = Cardinality(inflight) + 1
          /\ \A i \in StoredIds :
               Stored(i).status = RUNNING => getJobById(jobs', i).status = RUNNING]_vars

\* C20 witness: MaxJobs jobs were submitted and every one of them is Running
\* at once, each claimed by a tick, none of the executor calls resolved.
C20_Witness ==
  /\ Len(jobs) = MaxJobs
  /\ \A i \in StoredIds : Stored(i).status = RUNNING
  /\ Cardinality(inflight) = MaxJobs
  /\ \A c \in inflight : c.via = "tick"


\* C21 (checked under Spec): the resolution of an executor call writes only
\* the snapshot of the job the call was made for: a step that takes a call
\* out of those in flight leaves the stored snapshot of every other id as it
\* was, and stores and removes no id.
C21_CompletionWritesOwnJobOnly ==
  [][\A c \in inflight \ inflight' :
        /\ Len(jobs') = Len(jobs)
        /\ \A i \in StoredIds \ {c.job.id} : getJobById(jobs', i) = Stored(i)]_vars

\* C21 witness: job 1 was claimed before job 2, the executor call of job 2
\* has resolved and its terminal snapshot is stored, while the call of job 1
\* is still in flight, its timer not yet due, and job 1 is stored Running.
C21_Witness ==
  /\ {1, 2} \subseteq StoredIds
  /\ Stored(1).status = RUNNING
  /\ Stored(2).status \in {COMPLETED, FAILED}
  /\ Stored(1).started_at < Stored(2).started_at
  /\ \E c \in CallsFor(1) : now < c.due /\ Stored(2).finished_at < c.due

\* The other order: the call of job 1, claimed first, resolved first.
C21_ClaimOrderKept ==
  /\ {1, 2} \subseteq StoredIds
  /\ Stored(2).status = RUNNING
  /\ Stored(1).status \in {COMPLETED, FAILED}
  /\ Stored(1).started_at < Stored(2).started_at
  /\ \E c \in CallsFor(2) : now < c.due /\ Stored(1).finished_at < c.due


\* ------------------------------------------------ the service, scheduled
\* What the event loop guarantees. A callback that awaits resumes
\* (CancelResume), and the microtask queue is drained before the next
\* macrotask is taken: again and again no cancel is suspended. So a timer
\* that is due over and over fires: the setInterval tick while a Pending
\* eligible job is stored (Tick) and the setTimeout of every executor call
\* (ExecutorDone). The clock goes on (Advance).
Fairness ==
  /\ WF_vars(CancelResume)
  /\ []<>(cancelQ = <<>>)
  /\ SF_vars(Advance)
  /\ SF_vars(Tick)
  /\ SF_vars(\E c \in inflight : ExecutorDone(c))

SpecLive == Init /\ [][Next]_vars /\ Fairness

Written == {i \in StoredIds : getJobById(jobs', i) # Stored(i)}

\* A tick that returns without having done anything.
TickIdles == Tick /\ UNCHANGED vars

\* C23 (checked under Spec): a tick makes at most one claim. While a Pending
\* eligible job is stored, a tick of the running loop cannot return without
\* a claim, and a tick that claims moves exactly one job, Pending and
\* eligible, to Running and invokes the executor exactly once, for that job;
\* a single eligible job is the one the next tick claims. While no Pending
\* eligible job is stored a tick changes nothing: no snapshot is written and
\* the executor is not invoked.
C23_TickClaimsAtMostOne ==
  /\ []((timers > 0 /\ cancelQ = <<>>) =>
          IF EligibleNow # {}
          THEN ENABLED TickClaims /\ ~ENABLED TickIdles
          ELSE ~ENABLED <<Tick>>_vars)
  /\ [][Tick =>
          \E job \in EligibleNow :
            /\ Written = {job.id}
            /\ Len(jobs') = Len(jobs)
            /\ getJobById(jobs', job.id) = startJob(job, now)
            /\ inflight \subseteq inflight'
            /\ Cardinality(inflight' \ inflight) = 1
            /\ \A c \in inflight' \ inflight : c.job = startJob(job, now) /\ c.via = "tick"
            /\ startCount' = [startCount EXCEPT ![job.id] = @ + 1]]_vars

\* C23 witness: two Pending jobs were eligible when a tick fired; the tick
\* claimed job 1 alone: it is Running with the one executor call in flight,
\* job 2 is still Pending.
C23_Witness ==
  /\ {1, 2} \subseteq StoredIds
  /\ Stored(1).status = RUNNING
  /\ Stored(2).status = PENDING
  /\ Stored(2).eligible_at < Stored(1).started_at
  /\ startCount = [i \in Ids |-> IF i = 1 THEN 1 ELSE 0]
  /\ \E c \in inflight : inflight = {c} /\ c.via = "tick" /\ c.job = Stored(1)


C25_ExecuteJobResolvesForRunning ==
  /\ call.op = "execute" =>
       IF call.input.status = RUNNING
       THEN /\ call.error = ""
            /\ call.output.id = call.input.id
            /\ call.output.result = call.result
            /\ call.result.defined
            /\ \/ call.output.status = COMPLETED /\ ~isErrorResult(call.result)
               \/ /\ call.output.status = FAILED
                  /\ isErrorResult(call.result)
                  /\ call.result.code \in {500, 502, 503, 504}
       ELSE call.error # "" /\ call.output = NoJob
  /\ (Subject # NoJob /\ Subject.status = RUNNING) =>
       \A wanted \in {COMPLETED, FAILED} :
         \E failDraw \in Rand, codeDraw \in Rand :
           /\ executeJobError(Subject, failDraw) = ""
           /\ executeJobResult(Subject, failDraw, codeDraw, now).status = wanted

\* C25 witness: executeJob was called with a Running snapshot and resolved
\* with it Failed, error code 503.
C25_Witness ==
  /\ call.op = "execute"
  /\ call.input.status = RUNNING
  /\ call.error = ""
  /\ call.output.status = FAILED
  /\ call.result.code = 503

\* executeJob was called with a snapshot that is not Running and rejected.
C25_Rejected ==
  /\ call.op = "execute"
  /\ call.input.status = CANCELLED
  /\ call.error = "Cannot complete job in cancelled status"


\* processJobById claiming a job, and processJobById rejecting at once.
ByIdClaims(id) == ProcessJobById(id) /\ startCount' # startCount

ByIdFails(id) == ProcessJobById(id) /\ UNCHANGED vars

\* What processJobById does when it does not reject at once, and what the
\* resolution of its executor call stores and returns.
ByIdClaimsAndReturnsStored ==
  /\ [][\A id \in Ids :
          ProcessJobById(id) =>
            LET job == Stored(id)
            IN /\ Written = {id}
               /\ Len(jobs') = Len(jobs)
               /\ getJobById(jobs', id) = startJob(job, now)
               /\ inflight' \ inflight = {c \in inflight' : c.job = startJob(job, now) /\ c.via = "byId"}
               /\ Cardinality(inflight') = Cardinality(inflight) + 1]_vars
  /\ [][\A c \in inflight \ inflight' :
          c.via = "byId" =>
            /\ getJobById(jobs', c.job.id).status \in {COMPLETED, FAILED}
            /\ \E failDraw \in Rand, codeDraw \in Rand :
                 getJobById(jobs', c.job.id) = executeJobResult(c.job, failDraw, codeDraw, now)]_vars

\* C26 as stated: processById fails with NotFound for an absent id and with
\* NotEligible while now < eligible_at, changing nothing; for every other
\* id it claims the job, and the snapshot it returns is the Completed or
\* Failed snapshot then stored.
C26_ProcessByIdClaimsWhenEligible ==
  /\ [](\A id \in Ids :
          LET job == getJobById(jobs, id)
          IN IF job = NoJob
             THEN /\ ProcessByIdError(id, job) = "Job with id " \o ToString(id) \o " not found"
                  /\ ~ENABLED <<ProcessJobById(id)>>_vars
             ELSE IF now < job.eligible_at
             THEN /\ ProcessByIdError(id, job)
                       = "Job " \o ToString(id) \o " is not eligible yet (delay not fulfilled)"
                  /\ ~ENABLED <<ProcessJobById(id)>>_vars
             ELSE ENABLED ByIdClaims(id) /\ ~ENABLED ByIdFails(id))
  /\ ByIdClaimsAndReturnsStored

\* C26 (amended, checked under Spec): processById fails with NotFound for
\* an absent id, with NotEligible while now < eligible_at, and with the
\* error of startJob for a stored eligible job that is not Pending, in each
\* case changing nothing and not invoking the executor; for a Pending
\* eligible job it writes the Running snapshot and invokes the executor
\* once, and when that call resolves the snapshot it returns is the
\* executor's, Completed or Failed, and is the one then stored under the id.
C26_ProcessByIdClaimsPendingEligible ==
  /\ [](\A id \in Ids :
          LET job == getJobById(jobs, id)
          IN IF job = NoJob
             THEN /\ ProcessByIdError(id, job) = "Job with id " \o ToString(id) \o " not found"
                  /\ ~ENABLED <<ProcessJobById(id)>>_vars
             ELSE IF now < job.eligible_at
             THEN /\ ProcessByIdError(id, job)
                       = "Job " \o ToString(id) \o " is not eligible yet (delay not fulfilled)"
                  /\ ~ENABLED <<ProcessJobById(id)>>_vars
             ELSE IF job.status # PENDING
             THEN /\ ProcessByIdError(id, job) = "Cannot start job in " \o job.status \o " status"
                  /\ ~ENABLED <<ProcessJobById(id)>>_vars
             ELSE ENABLED ByIdClaims(id) /\ ~ENABLED ByIdFails(id))
  /\ ByIdClaimsAndReturnsStored

\* C26 witness: processById claimed job 1, whose executor call is due and
\* about to resolve, while job 2 is stored and not yet eligible and id 2
\* would be refused.
C26_Witness ==
  /\ {1, 2} \subseteq StoredIds
  /\ Stored(1).status = RUNNING
  /\ \E c \in inflight : c.job = Stored(1) /\ c.via = "byId" /\ now >= c.due
  /\ now < Stored(2).eligible_at


\* C27 (checked under SpecFaulty): when an executor call rejects, a call
\* made by processById hands the executor's error to processById's caller,
\* while a call made by a tick hands it to nobody and leaves the loop as it
\* was; in both cases no snapshot is written.
C27_RejectionReachesOnlyByIdCaller ==
  [][\A c \in inflight \ inflight' :
        ExecutorReject(c) =>
          /\ jobs' = jobs
          /\ IF c.via = "byId"
             THEN /\ call'.op = "processJobById"
                  /\ call'.error = "Execution failed"
             ELSE /\ call' = call
                  /\ UNCHANGED <<isRunning, processingInterval, timers>>]_vars

\* C27 witness: an executor call made by processById rejected and its
\* caller got the error; the job it had claimed is left Running with no
\* call in flight, and the loop runs.
C27_Witness ==
  /\ call.op = "processJobById"
  /\ call.error = "Execution failed"
  /\ timers > 0
  /\ \E i \in StoredIds : Stored(i).status = RUNNING /\ CallsFor(i) = {}


\* C28 (checked under SpecFactory): isTerminal returns true for a snapshot
\* whose status is Completed, Failed or Cancelled and false for one that is
\* Pending or Running; the answer is that of any snapshot of the same
\* status, whatever its other fields, and the snapshot is not changed.
C28_IsTerminalByStatusAlone ==
  call.op \in {"isTerminal: true", "isTerminal: false"} =>
    /\ call.input.status \in JobStatus
    /\ (call.op = "isTerminal: true") <=> (call.input.status \in {COMPLETED, FAILED, CANCELLED})
    /\ (call.op = "isTerminal: false") <=> (call.input.status \in {PENDING, RUNNING})
    /\ isTerminal(call.input) = isTerminal([NoJob EXCEPT !.status = call.input.status])
    /\ call.error = "" /\ call.output = call.input

\* C28 witness: isTerminal was asked about a Cancelled snapshot, one with no
\* started_at and no execution_time, and answered true.
C28_Witness ==
  /\ call.op = "isTerminal: true"
  /\ call.input.status = CANCELLED
  /\ call.input.started_at = Undefined


\* C29 (checked under Spec): the Running snapshot is stored when the
\* executor is invoked and the terminal one only once the call resolves: a
\* claim stores the Running snapshot and adds the one executor call for it,
\* the resolution of the call stores a Completed or Failed snapshot of that
\* job, and as long as the call is in flight the store shows the job as the
\* Running snapshot the executor was given.
C29_RunningWhileExecutorInFlight ==
  /\ [](\A c \in inflight :
          /\ startCount[c.job.id] = 1
          /\ CallsFor(c.job.id) = {c}
          /\ Stored(c.job.id) = c.job
          /\ c.job.status = RUNNING)
  /\ [][/\ \A c \in inflight' \ inflight :
             Stored(c.job.id).status = PENDING /\ getJobById(jobs', c.job.id) = c.job
        /\ \A c \in inflight \ inflight' :
             getJobById(jobs', c.job.id).status \in {COMPLETED, FAILED}]_vars


\* ---- the repository (checked under SpecStore)
\* C30: in every store state and for every snapshot, save does not fail;
\* afterwards findById of the snapshot's id returns that snapshot, count is
\* one more than before if the id was not stored and as before if it was,
\* and findById of every other id returns what it returned before.
C30_SaveIsAnUpsert ==
  \A id \in QueueIds : \A job \in QueueSnapshots(id) :
    LET after == save(jobs, job)
    IN /\ SaveError(jobs, job) = ""
       /\ findById(after, id) = job
       /\ getTotalJobs(after) = getTotalJobs(jobs) + (IF hasJob(jobs, id) THEN 0 ELSE 1)
       /\ \A other \in QueueIds \ {id} : findById(after, other) = findById(jobs, other)

\* C30 witness: ids 1 and 2 are stored, id 1 with a Cancelled snapshot saved
\* over its Pending one, and id 3 is not stored: the next save replaces for
\* ids 1 and 2 and inserts for id 3.
C30_Witness ==
  /\ Len(jobs) = 2
  /\ jobs[1].id = 1 /\ jobs[1].status = CANCELLED
  /\ jobs[2].id = 2 /\ jobs[2].status = PENDING
  /\ ~hasJob(jobs, 3)
  /\ nextId = 3


\* An optional field of a snapshot is present.
Present(value) == value # Undefined

\* C31 (checked under Spec): in every store state the optional fields of
\* each stored snapshot are those of its status: none of started_at,
\* finished_at, execution_time, result for Pending; started_at alone for
\* Running; all four for Completed and Failed; finished_at and result
\* without started_at and execution_time for Cancelled.
C31_OptionalFieldsMatchStatus ==
  \A i \in StoredIds :
    LET job == Stored(i)
        fields == <<Present(job.started_at), Present(job.finished_at),
                    Present(job.execution_time), job.result.defined>>
    IN /\ job.status \in JobStatus
       /\ job.status = PENDING => fields = <<FALSE, FALSE, FALSE, FALSE>>
       /\ job.status = RUNNING => fields = <<TRUE, FALSE, FALSE, FALSE>>
       /\ job.status \in {COMPLETED, FAILED} => fields = <<TRUE, TRUE, TRUE, TRUE>>
       /\ job.status = CANCELLED => fields = <<FALSE, TRUE, FALSE, TRUE>>

\* C31 witness: the store holds a Cancelled job next to one the loop or
\* processById has taken to Completed or Failed.
C31_Witness ==
  \E i \in StoredIds, k \in StoredIds :
    /\ Stored(i).status = CANCELLED /\ startCount[i] = 0
    /\ Stored(k).status \in {COMPLETED, FAILED} /\ startCount[k] = 1


\* C32 (checked under Spec): in every store state the result of each stored
\* snapshot has the shape of its status: a success result, without code,
\* for Completed; an error result whose code is one of the executor's and
\* not 499 for Failed; the error result with code 499 and message "Job was
\* cancelled" for Cancelled; none for Pending and Running.
C32_ResultShapeMatchesStatus ==
  \A i \in StoredIds :
    LET job == Stored(i)
    IN /\ job.status \in {PENDING, RUNNING} => job.result = NoResult
       /\ job.status = COMPLETED => job.result.defined /\ ~isErrorResult(job.result)
       /\ job.status = FAILED =>
            /\ job.result.defined /\ isErrorResult(job.result)
            /\ job.result.code \in {500, 502, 503, 504}
            /\ job.result.code # CANCEL_CODE
       /\ job.status = CANCELLED =>
            /\ job.result.defined /\ isErrorResult(job.result)
            /\ job.result.code = CANCEL_CODE
            /\ job.result.code \notin {500, 502, 503, 504}
            /\ job.result.message = "Job was cancelled"

\* C32 witness: the store holds a Failed job with the executor's code 503
\* next to a Cancelled job with code 499.
C32_Witness ==
  \E i \in StoredIds, k \in StoredIds :
    /\ Stored(i).status = FAILED /\ Stored(i).result.code = 503
    /\ Stored(k).status = CANCELLED /\ Stored(k).result.code = CANCEL_CODE


\* The fields of a snapshot that are fixed at creation.
Identity(job) ==
  <<job.id, job.type, job.payload, job.delay, job.created_at, job.eligible_at>>

\* C33 (checked under Spec): every store write made by a tick, processById,
\* cancel or an executor completion keeps id, type, payload, config.delay,
\* created_at and eligible_at of the job it writes: for each stored id these
\* six fields are in every later store state what they were at submission,
\* and eligible_at stays created_at + delay.
C33_IdentityFieldsPreserved ==
  /\ [](\A i \in StoredIds :
          /\ Stored(i).id = i
          /\ Stored(i).eligible_at = Stored(i).created_at + Stored(i).delay)
  /\ [][\A i \in StoredIds : Identity(getJobById(jobs', i)) = Identity(Stored(i))]_vars

\* C33 witness: a job submitted with a delay was claimed and its executor
\* call resolved: its snapshot was written by submit, by the claim and by
\* the completion.
C33_Witness ==
  \E i \in StoredIds :
    /\ Stored(i).status \in {COMPLETED, FAILED}
    /\ Stored(i).delay > 0
    /\ Stored(i).payload = OkPayload
    /\ Stored(i).started_at >= Stored(i).eligible_at


\* C34 (checked under Spec, whose clock never goes back): every stored
\* snapshot has ordered timestamps: created_at <= eligible_at; created_at <=
\* started_at where started_at is present; started_at <= finished_at and
\* execution_time >= 0 for Completed and Failed; created_at <= finished_at
\* for Cancelled.
C34_TimestampsOrdered ==
  /\ [](\A i \in StoredIds :
          LET job == Stored(i)
          IN /\ job.created_at <= job.eligible_at
             /\ Present(job.started_at) => job.created_at <= job.started_at
             /\ job.status \in {COMPLETED, FAILED} =>
                  job.started_at <= job.finished_at /\ job.execution_time >= 0
             /\ job.status = CANCELLED => job.created_at <= job.finished_at)
  /\ [][now' >= now]_vars

\* C34 witness: a delayed job was claimed after its eligible_at and finished
\* later still: created_at < eligible_at <= started_at < finished_at.
C34_Witness ==
  \E i \in StoredIds :
    /\ Stored(i).status \in {COMPLETED, FAILED}
    /\ Stored(i).created_at < Stored(i).eligible_at
    /\ Stored(i).eligible_at <= Stored(i).started_at
    /\ Stored(i).started_at < Stored(i).finished_at
    /\ Stored(i).execution_time > 0


\* A claimed job whose executor call is gone without a terminal snapshot.
Abandoned(i) ==
  /\ i \in StoredIds
  /\ Stored(i).status = RUNNING
  /\ startCount[i] > 0
  /\ CallsFor(i) = {}

\* C35 (checked under SpecFaulty): there is no retry and no recovery of a
\* claimed job. When the executor call of a stored job rejects, the job is
\* stored Running; and a job left Running with no call in flight keeps that
\* snapshot for as long as it is stored, is not what getNextEligibleJob
\* returns, and is not handed to the executor again.
C35_NoRetryAfterRejection ==
  /\ [][\A c \in inflight \ inflight' :
          (ExecutorReject(c) /\ hasJob(jobs, c.job.id)) =>
            getJobById(jobs', c.job.id).status = RUNNING]_vars
  /\ [](\A i \in Ids : Abandoned(i) => getNextEligibleJob(jobs, now) # Stored(i))
  /\ [][\A i \in Ids :
          Abandoned(i) =>
            /\ hasJob(jobs', i) => getJobById(jobs', i) = Stored(i)
            /\ startCount'[i] = startCount[i]
            /\ \A c \in inflight' : c.job.id # i]_vars


\* C36 (checked under Spec): stopping the loop only stops new claims. While
\* the loop is stopped no tick changes anything, so the loop moves no job
\* from Pending to Running; stop() itself writes no snapshot and drops no
\* executor call; and every executor call in flight, the loop stopped or
\* not, can resolve once it is due and then stores a Completed or Failed
\* snapshot of its job.
C36_StopOnlyStopsNewClaims ==
  /\ [](~isRunning => ~ENABLED <<Tick>>_vars)
  /\ [](\A c \in inflight : (now >= c.due /\ cancelQ = <<>>) => ENABLED ExecutorDone(c))
  /\ [][ProcessorStop => UNCHANGED <<jobs, inflight, startCount>>]_vars
  /\ [][\A c \in inflight \ inflight' :
          /\ getJobById(jobs', c.job.id).status \in {COMPLETED, FAILED}
          /\ getJobById(jobs', c.job.id).finished_at = now]_vars

\* C36 witness: the loop was stopped while job 1, claimed by a tick, was
\* Running; its executor call is now due and about to resolve, and job 2,
\* Pending and eligible, is not claimed.
C36_Witness ==
  /\ ~isRunning /\ timers = 0
  /\ {1, 2} \subseteq StoredIds
  /\ Stored(1).status = RUNNING
  /\ \E c \in inflight : c.job = Stored(1) /\ c.via = "tick" /\ now >= c.due
  /\ Stored(2).status = PENDING /\ isEligible(Stored(2), now)
  /\ cancelQ = <<>>


\* C37 (checked under SpecWorker): with the loop driven through
\* JobWorker.start, stop and restart, at most one polling timer is active,
\* a timer is active exactly while isProcessing() is true, and
\* JobWorker.isRunning() equals isProcessing(); restart(), called in any
\* state, leaves the worker running with one timer.
C37_WorkerAndTimerConsistent ==
  /\ timers \in {0, 1}
  /\ (timers = 1) <=> isProcessing
  /\ processingInterval <=> isProcessing
  /\ WorkerIsRunning = isProcessing
  /\ LET w == workerRestart(Worker)
     IN /\ w.isInitialized /\ w.processor.isRunning
        /\ w.processor.processingInterval /\ w.processor.timers = 1

\* C37 witness: the worker was started, stopped and is running again with
\* its one timer: a job was claimed by a tick before and has finished, and
\* another is eligible for the next tick.
C37_Witness ==
  /\ WorkerIsRunning /\ timers = 1
  /\ \E i \in StoredIds, k \in StoredIds :
       /\ Stored(i).status \in {COMPLETED, FAILED}
       /\ Stored(k).status = PENDING /\ isEligible(Stored(k), now)
       /\ Stored(k).eligible_at < Stored(i).started_at


\* C38 (checked under Spec): processById of a stored job whose eligible_at
\* has passed and whose status is Running, Completed, Failed or Cancelled
\* fails with startJob's error, which names that status, and changes
\* nothing: no snapshot is written and the executor is not invoked. Every
\* job processById claims is Pending, and no job is handed to the executor
\* twice.
C38_ProcessByIdRefusesNonPending ==
  /\ [](\A id \in StoredIds :
          (isEligible(Stored(id), now) /\ Stored(id).status # PENDING) =>
            /\ Stored(id).status \in {RUNNING, COMPLETED, FAILED, CANCELLED}
            /\ ProcessByIdError(id, Stored(id))
                 = "Cannot start job in " \o Stored(id).status \o " status"
            /\ ~ENABLED <<ProcessJobById(id)>>_vars)
  /\ [](\A id \in Ids : startCount[id] <= 1)
  /\ [][\A id \in Ids : ProcessJobById(id) => Stored(id).status = PENDING]_vars

\* C38 witness: a finished job and a cancelled job are stored, both past
\* their eligible_at: processById is refused for each.
C38_Witness ==
  \E i \in StoredIds, k \in StoredIds :
    /\ Stored(i).status \in {COMPLETED, FAILED} /\ isEligible(Stored(i), now)
    /\ Stored(k).status = CANCELLED /\ isEligible(Stored(k), now)
    /\ startCount[k] = 0
    /\ cancelQ = <<>> /\ inflight = {}


\* C39 (checked under Spec): no operation of the service removes a job. The
\* ids submit has returned are exactly the stored ids; every step keeps
\* every stored id stored, so the count never decreases, and getStatus of an
\* id stored before the step succeeds after it.
C39_NoJobIsRemoved ==
  /\ [](StoredIds = 1..(nextId - 1) /\ getTotalJobs(jobs) = nextId - 1)
  /\ [][/\ StoredIds \subseteq {jobs'[k].id : k \in 1..Len(jobs')}
        /\ getTotalJobs(jobs') >= getTotalJobs(jobs)
        /\ \A i \in StoredIds :
             /\ GetJobStatusError(i, findById(jobs', i)) = ""
             /\ getStatus(jobs', i).id = i]_vars

\* C39 witness: every job that could be submitted was, one was cancelled
\* and one went through the executor, and all of them are stored.
C39_Witness ==
  /\ nextId = MaxJobs + 1
  /\ getTotalJobs(jobs) = MaxJobs
  /\ \E i \in StoredIds : Stored(i).status = CANCELLED
  /\ \E i \in StoredIds : Stored(i).status \in {COMPLETED, FAILED}
  /\ \A i \in 1..MaxJobs : GetJobStatusError(i, findById(jobs, i)) = ""

====
